---- MODULE Spec2Model ----
(***************************************************************************)
(* PrefixFilter of py_stringsimjoin (filter/prefix_filter.py):             *)
(* filter_pair on two strings and filter_tables on two tables.             *)
(*                                                                         *)
(* A string is a sequence of items, each a word or the blank " "; words    *)
(* are always separated by blanks, so the whitespace tokenizer returns the *)
(* words of the sequence.  <<>> is the empty string.  None is Python's     *)
(* None (a missing cell).  A threshold is the rational <<num, den>>.       *)
(***************************************************************************)
EXTENDS Integers, Sequences, FiniteSets, TLC

\* Largest number of rows of the two input tables together; each table has
\* at least one row.
MaxRows == 3
\* Largest number of words of a string handed to filter_pair.
MaxWords == 3

None == <<"<None>">>

\* The tokens, in lexical (code point) order: "N" < "x" < "y" < "z".
WordOrder == <<"None", "x", "y", "z">>
Lex(tok) == CHOOSE i \in DOMAIN WordOrder : WordOrder[i] = tok

Min(a, b) == IF a <= b THEN a ELSE b
Max(a, b) == IF a >= b THEN a ELSE b
Range(s) == {s[i] : i \in DOMAIN s}
Perms(S) == {s \in [1..Cardinality(S) -> S] : Range(s) = S}

RECURSIVE Join(_)
\* The string whose words are ws, separated by single blanks.
Join(ws) == IF Len(ws) = 0 THEN <<>>
            ELSE IF Len(ws) = 1 THEN <<ws[1]>>
            ELSE <<ws[1], " ">> \o Join(Tail(ws))

----------------------------------------------------------------------------
(* Python built-ins used by the filter.                                    *)

\* `not v` is False exactly for a non-empty string; None and "" are falsy.
Truthy(v) == v # None /\ v # <<>>

\* str(v): a string is itself, None becomes the four-letter word "None".
str(v) == IF v = None THEN <<"None">> ELSE v

\* seq[0:k], with Python's meaning of an overlong or a negative k.
Slice0(seq, k) == IF k >= 0 THEN SubSeq(seq, 1, Min(k, Len(seq)))
                  ELSE SubSeq(seq, 1, Max(0, Len(seq) + k))

\* list.index(x) succeeds, or raises ValueError.
HasColumn(columns, attr) == \E i \in DOMAIN columns : columns[i] = attr
ColumnIndex(columns, attr) == CHOOSE i \in DOMAIN columns : columns[i] = attr

----------------------------------------------------------------------------
(* The collaborators of prefix_filter.py.                                   *)

\* The injected tokenizer: whitespace split, duplicates kept.
tokenizer(s) == SelectSeq(s, LAMBDA c : c # " ")

\* ceil(a / b) for a >= 0, b > 0.
CeilDiv(a, b) == (a + b - 1) \div b

\* filter_utils.get_prefix_length: n - ceil(t' * n) + 1 with t' = t for
\* Jaccard, t^2 for cosine, t / (2 - t) for Dice; within [1, n], and n at
\* threshold 0.  n = 0 is outside its contract; every slice of an empty
\* list is empty, so the value returned there does not matter.
get_prefix_length(n, sim_measure_type, t) ==
    IF n = 0 THEN 0
    ELSE LET c == CASE sim_measure_type = "JACCARD" -> CeilDiv(t[1] * n, t[2])
                    [] sim_measure_type = "COSINE"  ->
                           CeilDiv(t[1] * t[1] * n, t[2] * t[2])
                    [] sim_measure_type = "DICE"    ->
                           CeilDiv(t[1] * n, 2 * t[2] - t[1])
         IN  Max(1, Min(n, n - c + 1))

\* Ranks 0..N-1 by (frequency ascending, token ascending).
build_token_order(toks, freq) ==
    [t \in toks |->
        Cardinality({u \in toks :
            \/ freq[u] < freq[t]
            \/ freq[u] = freq[t] /\ Lex(u) < Lex(t)})]

\* token_sets: a sequence of token sets; a token's frequency is the number
\* of sets that hold it.
TokenFreq(token_sets) ==
    [t \in UNION Range(token_sets) |->
        Cardinality({i \in DOMAIN token_sets : t \in token_sets[i]})]

gen_token_ordering_for_lists(token_lists) ==
    build_token_order(UNION Range(token_lists), TokenFreq(token_lists))

\* The token set a record contributes: none for an empty or missing text.
RecordTokens(row, attr_index) ==
    IF Truthy(row[attr_index]) THEN Range(tokenizer(row[attr_index])) ELSE {}

gen_token_ordering_for_tables(table_list, attr_list) ==
    LET sets(k) == [i \in DOMAIN table_list[k] |->
                       RecordTokens(table_list[k][i], attr_list[k])]
    IN  gen_token_ordering_for_lists(sets(1) \o sets(2))

\* Every token must be ranked: ordering an unranked token fails.
Ranked(tokens, token_ordering) == tokens \subseteq DOMAIN token_ordering

\* The tokens as a sequence of ascending rank.
order_using_token_ordering(tokens, token_ordering) ==
    [i \in 1..Cardinality(tokens) |->
        CHOOSE t \in tokens :
            Cardinality({u \in tokens :
                token_ordering[u] < token_ordering[t]}) = i - 1]

\* PrefixIndex.build: token -> keys of the records whose prefix holds it.
PrefixIndexBuild(table, key_attr, index_attr, measure, t, ordering) ==
    LET prefix(row) ==
            LET toks == order_using_token_ordering(
                            RecordTokens(row, index_attr), ordering)
            IN  Range(Slice0(toks, get_prefix_length(Len(toks), measure, t)))
    IN  [tok \in UNION {prefix(table[i]) : i \in DOMAIN table} |->
            {table[i][key_attr] : i \in {j \in DOMAIN table :
                                            tok \in prefix(table[j])}}]

\* PrefixIndex.probe: the empty set for a token never indexed.
probe(index, token) == IF token \in DOMAIN index THEN index[token] ELSE {}

\* helper_functions.get_output_row_from_tables
get_output_row_from_tables(id, l_row, r_row, l_id, r_id, l_idx, r_idx) ==
    <<id, l_id, r_id>> \o [i \in DOMAIN l_idx |-> l_row[l_idx[i]]]
                       \o [i \in DOMAIN r_idx |-> r_row[r_idx[i]]]

----------------------------------------------------------------------------
(* The inputs.                                                             *)

\* The columns of both tables: a key, then the text to filter on.
Columns == <<"id", "attr">>

\* The text cells of the tables.
TableTexts ==
    {None, <<>>, <<" ">>, <<"None">>, <<"z">>,
     <<"x", " ", "y">>, <<"y", " ", "z">>}

\* The tables of n rows; row i carries the unique key i.
Tables(n) == {[i \in 1..n |-> <<i, f[i]>>] : f \in [1..n -> TableTexts]}

\* The field names of a call: all known, without and with output fields, and
\* each of the six with one unknown name.
GoodArgs == [l_key_attr |-> "id", r_key_attr |-> "id",
             l_filter_attr |-> "attr", r_filter_attr |-> "attr",
             l_out_attrs |-> None, r_out_attrs |-> None]
ArgChoices ==
    {GoodArgs,
     [GoodArgs EXCEPT !.l_out_attrs = <<"attr">>, !.r_out_attrs = <<"attr">>],
     [GoodArgs EXCEPT !.l_key_attr = "nope"],
     [GoodArgs EXCEPT !.l_filter_attr = "nope"],
     [GoodArgs EXCEPT !.l_out_attrs = <<"attr", "nope">>],
     [GoodArgs EXCEPT !.r_key_attr = "nope"],
     [GoodArgs EXCEPT !.r_filter_attr = "nope"],
     [GoodArgs EXCEPT !.r_out_attrs = <<"nope">>]}

Measures == {"JACCARD", "COSINE", "DICE"}
\* filter_tables only hands the measure on to get_prefix_length, and on the
\* token sets of TableTexts (one or two tokens) the three measures give the
\* same prefix length at every threshold of Thresholds: the tables are
\* filtered under one of them.
TableMeasures == {"JACCARD"}
Thresholds == {<<0, 1>>, <<1, 2>>, <<1, 1>>}

\* The strings handed to filter_pair.
PairTexts ==
    {None, <<>>, <<" ">>}
    \cup {Join(ws) : ws \in UNION {[1..n -> {"x", "y", "z"}] : n \in 1..MaxWords}}

----------------------------------------------------------------------------
(* Python dicts, kept as the sequence of their <<key, value>> items in     *)
(* insertion order.                                                        *)

\* d[k] = v: a new key is appended, a known key keeps its place.
DictPut(d, k, v) ==
    IF \E i \in DOMAIN d : d[i][1] = k
    THEN [i \in DOMAIN d |-> IF d[i][1] = k THEN <<k, v>> ELSE d[i]]
    ELSE Append(d, <<k, v>>)

RECURSIVE DictOfTable(_, _)
\* The loop `for row in table.itertuples(): d[row[key_index]] = row`.
DictOfTable(table, key_index) ==
    IF Len(table) = 0 THEN <<>>
    ELSE DictPut(DictOfTable(SubSeq(table, 1, Len(table) - 1), key_index),
                 table[Len(table)][key_index], table[Len(table)])

DictValues(d) == [i \in DOMAIN d |-> d[i][2]]
DictGet(d, k) == d[CHOOSE i \in DOMAIN d : d[i][1] = k][2]

----------------------------------------------------------------------------
VARIABLES
    op,               \* the operation called: "filter_tables" or "filter_pair"
    sim_measure_type, \* self.sim_measure_type
    threshold,        \* self.threshold
    lstring, rstring, \* the arguments of filter_pair
    pair_result,      \* what filter_pair returned
    ltable, rtable,   \* the tables handed to filter_tables
    args,             \* the field names handed to filter_tables
    pc,               \* where the call stands
    idx,              \* the column indices resolved from the field names
    ltable_dict, rtable_dict,
    token_ordering,
    prefix_index,
    built,            \* which of the dicts, ordering and index exist so far
    tokenized,        \* the texts tokenized so far by the call
    r_pos,            \* the position of the loop over rtable_dict.values()
    candidates,       \* the candidates of the current right record still to emit
    candset_id,
    output_rows,
    output_table,     \* the table returned
    plen_calls,       \* the sizes n passed to get_prefix_length by the filter
    run,              \* 1 for the first call of filter_tables, 2 for a repeat
    prev              \* the inputs and the result of the first call

vars == <<op, sim_measure_type, threshold, lstring, rstring, pair_result,
          ltable, rtable, args, pc, idx, ltable_dict, rtable_dict,
          token_ordering, prefix_index, built, tokenized, r_pos, candidates,
          candset_id, output_rows, output_table, plen_calls, run, prev>>

inputs == <<op, sim_measure_type, lstring, rstring, ltable, args>>

NoIdx == [l_key |-> 0, l_filter |-> 0, l_out |-> <<>>,
          r_key |-> 0, r_filter |-> 0, r_out |-> <<>>]
NoPrev == [status |-> "none", rtable |-> <<>>, threshold |-> <<0, 1>>,
           output |-> <<>>]

\* The state in which a call of filter_tables starts.
Fresh ==
    /\ pc = "start"
    /\ idx = NoIdx
    /\ ltable_dict = <<>> /\ rtable_dict = <<>>
    /\ token_ordering = <<>> /\ prefix_index = <<>>
    /\ built = {}
    /\ tokenized = 0
    /\ r_pos = 1
    /\ candidates = <<>>
    /\ candset_id = 1
    /\ output_rows = <<>>
    /\ output_table = <<>>
    /\ plen_calls = {}

InitTables(arg_choices) ==
    /\ op = "filter_tables"
    /\ sim_measure_type \in TableMeasures
    /\ threshold \in Thresholds
    /\ \E n \in 1..(MaxRows - 1) :
           /\ ltable \in Tables(n)
           /\ rtable \in UNION {Tables(m) : m \in 1..(MaxRows - n)}
    /\ args \in arg_choices
    /\ lstring = None /\ rstring = None /\ pair_result = None
    /\ run = 1 /\ prev = NoPrev
    /\ Fresh

InitPair ==
    /\ op = "filter_pair"
    /\ sim_measure_type \in Measures
    /\ threshold \in Thresholds
    /\ lstring \in PairTexts /\ rstring \in PairTexts
    /\ pair_result = None
    /\ ltable = <<>> /\ rtable = <<>> /\ args = GoodArgs
    /\ run = 1 /\ prev = NoPrev
    /\ Fresh

Init == InitTables(ArgChoices) \/ InitPair

----------------------------------------------------------------------------
(* filter_pair                                                             *)

\* The deduplicated tokens of a string: set(self.tokenizer(s)).
TokenSet(s) == Range(tokenizer(s))

\* ordered_tokens[0:prefix_length] of filter_pair, as a set.
PairPrefix(ordered_tokens, prefix_length) ==
    Range(Slice0(ordered_tokens, prefix_length))

\* The check for an empty string: an empty or missing argument is dropped.
PairEmpty ==
    /\ op = "filter_pair" /\ pc = "start"
    /\ ~Truthy(lstring) \/ ~Truthy(rstring)
    /\ pair_result' = TRUE
    /\ pc' = "done"
    /\ UNCHANGED <<inputs, threshold, rtable, idx, ltable_dict, rtable_dict,
                   token_ordering, prefix_index, built, tokenized, r_pos,
                   candidates, candset_id, output_rows, output_table,
                   plen_calls, run, prev>>

\* The rest of filter_pair: True (drop) iff the two prefixes share no token.
PairFilter ==
    /\ op = "filter_pair" /\ pc = "start"
    /\ Truthy(lstring) /\ Truthy(rstring)
    /\ LET ltokens == TokenSet(lstring)
           rtokens == TokenSet(rstring)
       IN  \E ordering \in {gen_token_ordering_for_lists(<<ltokens, rtokens>>)} :
           \E ordered_ltokens \in {order_using_token_ordering(ltokens, ordering)} :
           \E ordered_rtokens \in {order_using_token_ordering(rtokens, ordering)} :
           LET l_prefix_length ==
                   get_prefix_length(Len(ordered_ltokens), sim_measure_type,
                                     threshold)
               r_prefix_length ==
                   get_prefix_length(Len(ordered_rtokens), sim_measure_type,
                                     threshold)
               prefix_overlap ==
                   PairPrefix(ordered_ltokens, l_prefix_length)
                       \cap PairPrefix(ordered_rtokens, r_prefix_length)
           IN
           /\ pair_result' = ~(Cardinality(prefix_overlap) > 0)
           /\ plen_calls' = {Len(ordered_ltokens), Len(ordered_rtokens)}
           /\ tokenized' = tokenized + 2
    /\ pc' = "done"
    /\ UNCHANGED <<inputs, threshold, rtable, idx, ltable_dict, rtable_dict,
                   token_ordering, prefix_index, built, r_pos, candidates,
                   candset_id, output_rows, output_table, run, prev>>

----------------------------------------------------------------------------
(* filter_tables                                                           *)

\* Mutation of FieldsResolve: the right output fields are not looked up.
FieldsResolveSkipsRightOut(a) ==
    /\ HasColumn(Columns, a.l_key_attr)
    /\ HasColumn(Columns, a.l_filter_attr)
    /\ a.l_out_attrs # None =>
           \A i \in DOMAIN a.l_out_attrs : HasColumn(Columns, a.l_out_attrs[i])
    /\ HasColumn(Columns, a.r_key_attr)
    /\ HasColumn(Columns, a.r_filter_attr)

\* Every columns.index(attr) of the call finds its field name.
FieldsResolve(a) ==
    /\ HasColumn(Columns, a.l_key_attr)
    /\ HasColumn(Columns, a.l_filter_attr)
    /\ a.l_out_attrs # None =>
           \A i \in DOMAIN a.l_out_attrs : HasColumn(Columns, a.l_out_attrs[i])
    /\ HasColumn(Columns, a.r_key_attr)
    /\ HasColumn(Columns, a.r_filter_attr)
    /\ Truthy(a.r_out_attrs) =>
           \A i \in DOMAIN a.r_out_attrs : HasColumn(Columns, a.r_out_attrs[i])

\* A field name's column index; 0 stands for a name never looked up.
IndexOf(attr) == IF HasColumn(Columns, attr) THEN ColumnIndex(Columns, attr)
                 ELSE 0
IndicesOf(attrs) == IF Truthy(attrs) THEN [i \in DOMAIN attrs |-> IndexOf(attrs[i])]
                    ELSE <<>>

\* The column indices of the key, filter and output fields are looked up; an
\* unknown name raises ValueError.
ResolveColumns ==
    /\ op = "filter_tables" /\ pc = "start"
    /\ IF FieldsResolve(args)
       THEN /\ idx' = [l_key |-> IndexOf(args.l_key_attr),
                       l_filter |-> IndexOf(args.l_filter_attr),
                       l_out |-> IndicesOf(args.l_out_attrs),
                       r_key |-> IndexOf(args.r_key_attr),
                       r_filter |-> IndexOf(args.r_filter_attr),
                       r_out |-> IndicesOf(args.r_out_attrs)]
            /\ pc' = "dicts"
       ELSE /\ idx' = idx
            /\ pc' = "ValueError"
    /\ UNCHANGED <<inputs, pair_result, threshold, rtable, ltable_dict,
                   rtable_dict, token_ordering, prefix_index, built,
                   tokenized, r_pos, candidates, candset_id, output_rows,
                   output_table, plen_calls, run, prev>>

\* The dictionaries on ltable and rtable are built.
BuildDicts ==
    /\ pc = "dicts"
    /\ ltable_dict' = DictOfTable(ltable, idx.l_key)
    /\ rtable_dict' = DictOfTable(rtable, idx.r_key)
    /\ built' = built \cup {"dicts"}
    /\ pc' = "ordering"
    /\ UNCHANGED <<inputs, pair_result, threshold, rtable, idx,
                   token_ordering, prefix_index, tokenized, r_pos,
                   candidates, candset_id, output_rows, output_table,
                   plen_calls, run, prev>>

\* The token ordering over the filter fields of both tables is generated.
GenTokenOrdering ==
    /\ pc = "ordering"
    /\ token_ordering' =
           gen_token_ordering_for_tables(
               <<DictValues(ltable_dict), DictValues(rtable_dict)>>,
               <<idx.l_filter, idx.r_filter>>)
    /\ built' = built \cup {"token_ordering"}
    /\ tokenized' = tokenized + Len(ltable_dict) + Len(rtable_dict)
    /\ pc' = "index"
    /\ UNCHANGED <<inputs, pair_result, threshold, rtable, idx, ltable_dict,
                   rtable_dict, prefix_index, r_pos, candidates, candset_id,
                   output_rows, output_table, plen_calls, run, prev>>

\* The prefix index on the left filter field is built.
BuildPrefixIndex ==
    /\ pc = "index"
    /\ prefix_index' =
           PrefixIndexBuild(DictValues(ltable_dict), idx.l_key, idx.l_filter,
                            sim_measure_type, threshold, token_ordering)
    /\ built' = built \cup {"prefix_index"}
    /\ tokenized' = tokenized + Len(ltable_dict)
    /\ pc' = "probe"
    /\ UNCHANGED <<inputs, pair_result, threshold, rtable, idx, ltable_dict,
                   rtable_dict, token_ordering, r_pos, candidates,
                   candset_id, output_rows, output_table, plen_calls, run,
                   prev>>

\* The right record the loop stands at, and what lines 131-138 derive from it.
RRow == DictValues(rtable_dict)[r_pos]
RId == RRow[idx.r_key]
RString == str(RRow[idx.r_filter])
RTokens == TokenSet(RString)
ROrderedTokens == order_using_token_ordering(RTokens, token_ordering)
RPrefixLength ==
    get_prefix_length(Len(ROrderedTokens), sim_measure_type, threshold)

\* Mutation of RPrefix: r_ordered_tokens[r_prefix_length:].
RPrefixRest(r_ordered_tokens, r_prefix_length) ==
    SubSeq(r_ordered_tokens,
           Min(Max(r_prefix_length, 0), Len(r_ordered_tokens)) + 1,
           Len(r_ordered_tokens))

\* r_ordered_tokens[0:r_prefix_length]: the tokens probed.
RPrefix(r_ordered_tokens, r_prefix_length) ==
    Slice0(r_ordered_tokens, r_prefix_length)

\* Mutation of AfterEmpty: `break` in place of `continue`.
AfterEmptyBreak(pos, n) == n + 1

\* The loop position after the `continue` of an empty right string.
AfterEmpty(pos, n) == pos + 1

RECURSIVE HitList(_, _)
\* The keys returned by the probes, one after the other.
HitList(prefix, index) ==
    IF Len(prefix) = 0 THEN <<>>
    ELSE (CHOOSE s \in Perms(probe(index, Head(prefix))) : TRUE)
             \o HitList(Tail(prefix), index)

\* Mutation of CandidateIteration: candidates is a list, appended to.
CandidateIterationOfList(prefix, index) == {HitList(prefix, index)}

\* The orders in which `for cand in candidates` may visit the set of the
\* keys returned by the probes: a set has no order of its own.
CandidateIteration(prefix, index) ==
    Perms(UNION {probe(index, prefix[i]) : i \in DOMAIN prefix})

\* Mutation of NextCandsetId: the increment is lost.
NextCandsetIdStuck(id) == id

\* candset_id += 1
NextCandsetId(id) == id + 1

\* A right record whose string is empty is skipped.
SkipEmpty ==
    /\ pc = "probe" /\ r_pos <= Len(rtable_dict)
    /\ ~Truthy(RString)
    /\ r_pos' = AfterEmpty(r_pos, Len(rtable_dict))
    /\ UNCHANGED <<inputs, pair_result, threshold, rtable, pc, idx,
                   ltable_dict, rtable_dict, token_ordering, prefix_index,
                   built, tokenized, candidates, candset_id, output_rows,
                   output_table, plen_calls, run, prev>>

\* Ordering the tokens of a right record fails on a token without a rank.
OrderingFails ==
    /\ pc = "probe" /\ r_pos <= Len(rtable_dict)
    /\ Truthy(RString)
    /\ ~Ranked(RTokens, token_ordering)
    /\ tokenized' = tokenized + 1
    /\ pc' = "KeyError"
    /\ UNCHANGED <<inputs, pair_result, threshold, rtable, idx, ltable_dict,
                   rtable_dict, token_ordering, prefix_index, built, r_pos,
                   candidates, candset_id, output_rows, output_table,
                   plen_calls, run, prev>>

\* The prefix of a right record is probed and its candidates are collected.
ProbeRecord ==
    /\ pc = "probe" /\ r_pos <= Len(rtable_dict)
    /\ Truthy(RString)
    /\ Ranked(RTokens, token_ordering)
    /\ candidates' \in
           CandidateIteration(RPrefix(ROrderedTokens, RPrefixLength),
                              prefix_index)
    /\ plen_calls' = plen_calls \cup {Len(ROrderedTokens)}
    /\ tokenized' = tokenized + 1
    /\ pc' = "emit"
    /\ UNCHANGED <<inputs, pair_result, threshold, rtable, idx, ltable_dict,
                   rtable_dict, token_ordering, prefix_index, built, r_pos,
                   candset_id, output_rows, output_table, run, prev>>

has_output_attributes == args.l_out_attrs # None \/ args.r_out_attrs # None

\* One round of `for cand in candidates`: a row is appended.
EmitRow ==
    /\ pc = "emit" /\ candidates # <<>>
    /\ LET cand == Head(candidates)
       IN  output_rows' =
               Append(output_rows,
                      IF has_output_attributes
                      THEN get_output_row_from_tables(
                               candset_id, DictGet(ltable_dict, cand), RRow,
                               cand, RId, idx.l_out, idx.r_out)
                      ELSE <<candset_id, cand, RId>>)
    /\ candset_id' = NextCandsetId(candset_id)
    /\ candidates' = Tail(candidates)
    /\ UNCHANGED <<inputs, pair_result, threshold, rtable, pc, idx,
                   ltable_dict, rtable_dict, token_ordering, prefix_index,
                   built, tokenized, r_pos, output_table, plen_calls, run,
                   prev>>

\* The candidates of a right record are exhausted: on to the next record.
NextRecord ==
    /\ pc = "emit" /\ candidates = <<>>
    /\ r_pos' = r_pos + 1
    /\ pc' = "probe"
    /\ UNCHANGED <<inputs, pair_result, threshold, rtable, idx, ltable_dict,
                   rtable_dict, token_ordering, prefix_index, built,
                   tokenized, candidates, candset_id, output_rows,
                   output_table, plen_calls, run, prev>>

\* After the last right record the table is made of the rows and returned.
ReturnTable ==
    /\ pc = "probe" /\ r_pos > Len(rtable_dict)
    /\ output_table' = output_rows
    /\ pc' = "done"
    /\ UNCHANGED <<inputs, pair_result, threshold, rtable, idx, ltable_dict,
                   rtable_dict, token_ordering, prefix_index, built,
                   tokenized, r_pos, candidates, candset_id, output_rows,
                   plen_calls, run, prev>>

\* The right tables with the rows of t in another order.
Reorderings(t) == {[i \in DOMAIN t |-> t[p[i]]] : p \in Perms(DOMAIN t)}

\* A second call of filter_tables on the same left table and field names:
\* with the same threshold and the right rows in any order, or with the
\* same right table and any threshold.
SecondCall ==
    /\ op = "filter_tables" /\ run = 1
    /\ pc \in {"done", "ValueError", "KeyError"}
    /\ prev' = [status |-> pc, rtable |-> rtable, threshold |-> threshold,
                output |-> output_table]
    /\ run' = 2
    /\ \/ rtable' \in Reorderings(rtable) /\ threshold' = threshold
       \/ rtable' = rtable /\ threshold' \in Thresholds
    /\ pc' = "start"
    /\ idx' = NoIdx
    /\ ltable_dict' = <<>> /\ rtable_dict' = <<>>
    /\ token_ordering' = <<>> /\ prefix_index' = <<>>
    /\ built' = {}
    /\ tokenized' = 0
    /\ r_pos' = 1
    /\ candidates' = <<>>
    /\ candset_id' = 1
    /\ output_rows' = <<>>
    /\ output_table' = <<>>
    /\ plen_calls' = {}
    /\ UNCHANGED <<inputs, pair_result>>

Next ==
    \/ PairEmpty
    \/ PairFilter
    \/ ResolveColumns
    \/ BuildDicts
    \/ GenTokenOrdering
    \/ BuildPrefixIndex
    \/ SkipEmpty
    \/ OrderingFails
    \/ ProbeRecord
    \/ EmitRow
    \/ NextRecord
    \/ ReturnTable

Spec == Init /\ [][Next]_vars

\* Two calls of filter_tables, one after the other, on known field names.
InitRuns == InitTables({GoodArgs})

NextRuns ==
    \/ ResolveColumns
    \/ BuildDicts
    \/ GenTokenOrdering
    \/ BuildPrefixIndex
    \/ SkipEmpty
    \/ OrderingFails
    \/ ProbeRecord
    \/ EmitRow
    \/ NextRecord
    \/ ReturnTable
    \/ SecondCall

SpecRuns == InitRuns /\ [][NextRuns]_vars

----------------------------------------------------------------------------
(* The claims.                                                             *)

Card(S) == Cardinality(S)

\* The similarity of two token sets is defined (its denominator is not 0).
SimDefined(x, y, measure) ==
    CASE measure = "JACCARD" -> Card(x \cup y) > 0
      [] measure = "COSINE"  -> Card(x) * Card(y) > 0
      [] measure = "DICE"    -> Card(x) + Card(y) > 0

\* The similarity of two token sets is at least t = t[1] / t[2]:
\* Jaccard |x&y| / |x|y|, cosine |x&y| / sqrt(|x| * |y|), Dice
\* 2 * |x&y| / (|x| + |y|).
SimMeets(x, y, measure, t) ==
    LET o == Card(x \cap y)
    IN  CASE measure = "JACCARD" -> o * t[2] >= t[1] * Card(x \cup y)
          [] measure = "COSINE"  ->
                 o * o * t[2] * t[2] >= t[1] * t[1] * Card(x) * Card(y)
          [] measure = "DICE"    -> 2 * o * t[2] >= t[1] * (Card(x) + Card(y))

\* t <= u for two thresholds.
ThresholdLeq(t, u) == t[1] * u[2] <= u[1] * t[2]

TablesDone == op = "filter_tables" /\ pc = "done"

\* The (left key, right key) pairs of a list of output rows.
Pairs(rows) == {<<rows[i][2], rows[i][3]>> : i \in DOMAIN rows}

\* The records of a table with the given key.
RecordsOf(table, key_index, key) ==
    {table[i] : i \in {j \in DOMAIN table : table[j][key_index] = key}}

\* The prefix of a record's ordered token sequence under the ordering and
\* the threshold of the call.
PrefixOfText(text) ==
    LET toks == order_using_token_ordering(TokenSet(text), token_ordering)
    IN  Range(Slice0(toks, get_prefix_length(Len(toks), sim_measure_type,
                                             threshold)))

\* C1: filter_pair returns false (keeps the pair) for every pair of non-empty
\* strings whose token sets have a similarity of at least the threshold.
C1_Soundness ==
    (/\ op = "filter_pair" /\ pc = "done"
     /\ Truthy(lstring) /\ Truthy(rstring)
     /\ SimDefined(TokenSet(lstring), TokenSet(rstring), sim_measure_type)
     /\ SimMeets(TokenSet(lstring), TokenSet(rstring), sim_measure_type,
                 threshold))
    => pair_result = FALSE

\* C2: no row of the returned table has the key of a left record with an
\* empty or missing text as its left key, nor the key of such a right record
\* as its right key.
C2_EmptyHandling ==
    TablesDone =>
        \A i \in DOMAIN output_table :
            /\ \A l \in RecordsOf(ltable, idx.l_key, output_table[i][2]) :
                   Truthy(l[idx.l_filter])
            /\ \A r \in RecordsOf(rtable, idx.r_key, output_table[i][3]) :
                   Truthy(r[idx.r_filter])

\* C3: each (left key, right key) pair appears in at most one row, among the
\* rows emitted so far and in the returned table.
C3_PairOnce ==
    /\ \A i, j \in DOMAIN output_rows :
           Pairs(<<output_rows[i]>>) = Pairs(<<output_rows[j]>>) => i = j
    /\ \A i, j \in DOMAIN output_table :
           Pairs(<<output_table[i]>>) = Pairs(<<output_table[j]>>) => i = j

\* A returned row whose right record has two prefix tokens that both probe
\* to the row's left key.
C3_Witness ==
    /\ TablesDone
    /\ \E i \in DOMAIN output_table :
           \E r \in RecordsOf(rtable, idx.r_key, output_table[i][3]) :
               \E t, u \in PrefixOfText(str(r[idx.r_filter])) :
                   /\ t # u
                   /\ output_table[i][2] \in probe(prefix_index, t)
                   /\ output_table[i][2] \in probe(prefix_index, u)

\* The place of the right record with the given key in the loop's order.
RightPlace(key) ==
    CHOOSE i \in DOMAIN rtable_dict : rtable_dict[i][1] = key

\* C4: at every point of the loop and in the returned table the identifiers
\* of the rows are 1, 2, ..., N in the order of emission, the next
\* identifier is N + 1, and the rows of an earlier right record precede
\* those of a later one.
C4_Identifiers ==
    op = "filter_tables" =>
        /\ \A i \in DOMAIN output_rows : output_rows[i][1] = i
        /\ candset_id = Len(output_rows) + 1
        /\ \A i, j \in DOMAIN output_rows :
               RightPlace(output_rows[i][3]) < RightPlace(output_rows[j][3])
                   => output_rows[i][1] < output_rows[j][1]
        /\ pc = "done" => output_table = output_rows

\* The returned table has rows of two different right records.
C4_Witness ==
    /\ TablesDone
    /\ \E i, j \in DOMAIN output_table :
           output_table[i][3] # output_table[j][3]

\* The field names a call names: both keys, both texts and the requested
\* output fields.
NamedFields(a) ==
    {a.l_key_attr, a.l_filter_attr, a.r_key_attr, a.r_filter_attr}
        \cup (IF a.l_out_attrs = None THEN {} ELSE Range(a.l_out_attrs))
        \cup (IF a.r_out_attrs = None THEN {} ELSE Range(a.r_out_attrs))

UnknownField == \E f \in NamedFields(args) : f \notin Range(Columns)

\* C5: with a field name that is no column, filter_tables fails before any
\* text is tokenized, before the dictionaries, the token ordering and the
\* prefix index are built and before any row is emitted.
C5_FailFast ==
    (op = "filter_tables" /\ UnknownField) =>
        /\ pc \in {"start", "ValueError"}
        /\ tokenized = 0
        /\ built = {}
        /\ output_rows = <<>> /\ output_table = <<>>

\* The call has failed on an unknown field name.
C5_Witness == op = "filter_tables" /\ UnknownField /\ pc = "ValueError"

\* C6: with the rows of the right table in another order and everything
\* else the same, the second call ends as the first did and returns the same
\* set of (left key, right key) pairs.
C6_OrderIndependence ==
    (/\ run = 2 /\ pc \in {"done", "KeyError"}
     /\ threshold = prev.threshold)
    => /\ pc = prev.status
       /\ Pairs(output_table) = Pairs(prev.output)

\* The second call ran on a reordered right table and gave some pair
\* another identifier than the first.
C6_Witness ==
    /\ run = 2 /\ pc = "done"
    /\ threshold = prev.threshold
    /\ rtable # prev.rtable
    /\ output_table # <<>>
    /\ \E i \in DOMAIN output_table :
           Pairs(<<output_table[i]>>) # Pairs(<<prev.output[i]>>)

\* C7: a second call on the same inputs returns the same table: the same
\* rows with the same identifiers in the same order.
C7_Determinism ==
    (/\ run = 2 /\ pc = "done"
     /\ rtable = prev.rtable /\ threshold = prev.threshold)
    => output_table = prev.output

\* C8: of two calls on the same tables, the one with the larger threshold
\* returns at most as many rows as the other.
C8_Monotonicity ==
    (run = 2 /\ pc \in {"done", "KeyError"} /\ rtable = prev.rtable)
    => /\ pc = prev.status
       /\ ThresholdLeq(prev.threshold, threshold)
              => Len(output_table) <= Len(prev.output)
       /\ ThresholdLeq(threshold, prev.threshold)
              => Len(prev.output) <= Len(output_table)

\* The call with the larger threshold returned fewer rows.
C8_Witness ==
    /\ run = 2 /\ pc = "done" /\ rtable = prev.rtable
    /\ ~ThresholdLeq(threshold, prev.threshold)
    /\ Len(output_table) < Len(prev.output)

\* C9: the returned table has a row for (left key l, right key r) iff both
\* records have a non-empty text and their prefixes under the one token
\* ordering of the call share a token.
C9_CandidateSet ==
    TablesDone =>
        \A i \in DOMAIN ltable, j \in DOMAIN rtable :
            <<ltable[i][idx.l_key], rtable[j][idx.r_key]>> \in Pairs(output_table)
            <=> /\ Truthy(ltable[i][idx.l_filter])
                /\ Truthy(rtable[j][idx.r_filter])
                /\ PrefixOfText(ltable[i][idx.l_filter])
                       \cap PrefixOfText(rtable[j][idx.r_filter]) # {}

\* C10: filter_pair and the loop of filter_tables call the prefix length
\* calculator only with a size n >= 1.
C10_PrefixLengthPrecondition == \A n \in plen_calls : n >= 1

====
